---- MODULE Spec2Model ----
(***************************************************************************)
(* A model of the wesplit Convex backend: the document store with its      *)
(* groups / members / expenses / settlements mutations, and the balance    *)
(* queries of balances.ts (calculateExpenseSplit, getMemberBalances,       *)
(* getDetailedDebts, getOptimizedSettlements, getGroupSummary).            *)
(*                                                                         *)
(* Numbers.  The source computes in IEEE 754 doubles, and so does the      *)
(* model: every number is a double (sign, 53-bit mantissa, exponent, or an *)
(* infinity or NaN) and every +, -, *, /, Math.round, Math.abs, Math.min   *)
(* and comparison gives the double that ECMAScript gives, rounding error   *)
(* included.                                                               *)
(***************************************************************************)
EXTENDS Integers, Sequences, FiniteSets, TLC

VARIABLES
    groups,       \* table "groups":      id -> [archived]
    members,      \* table "members":     id -> [groupId, isActive]
    expenses,     \* table "expenses":    id -> expense document
    settlements,  \* table "settlements": id -> [groupId, fromMember, toMember, amount]
    nextId,       \* per table, the number of documents inserted so far
    last,         \* the last mutation called: [op, ok]
    call,         \* the last pure-function call: its arguments and result
    pc, i, j, debtors, creditors, suggestedSettlements
                  \* the optimizer's loop (balances.ts 269-293)

vars == <<groups, members, expenses, settlements, nextId, last, call,
          pc, i, j, debtors, creditors, suggestedSettlements>>

storeVars == <<groups, members, expenses, settlements, nextId, last>>
loopVars == <<pc, i, j, debtors, creditors, suggestedSettlements>>

----------------------------------------------------------------------------
(* Bounds of the model *)

MaxGroups == 2
MaxMembers == 2
MaxExpenses == 1
MaxSettlements == 1
MaxSplit == 2
\* SpecSplit: member ids, participants and detail entries of the inputs.
SplitMembers == 3
SplitLen == 3
MaxDetails == 2
\* SpecLedger: members of the group, expenses and settlements recorded.
LedgerMembers == 3
LedgerExpenses == 2
LedgerSettlements == 1
\* SpecOpt: entries of the net-balance list.
OptMembers == 3
\* SpecNet: members of the debt matrix.
NetMembers == 3
\* SpecCreate: members of the group, expenses created.
CreateMembers == 2
CreateExpenses == 2

----------------------------------------------------------------------------
(* Numbers: JavaScript numbers are IEEE 754 binary64 doubles.  A finite     *)
(* double is sign * m * 2^e with the mantissa m < 2^53 held as four limbs   *)
(* of LimbBits bits, least significant first; m has 53 bits unless e is     *)
(* MinExp (subnormals and zero).  Every operation computes the exact result *)
(* on whole numbers of limbs and rounds it to the nearest double, ties to   *)
(* the even mantissa.                                                       *)

LimbBits == 15
Base == 2 ^ LimbBits
MantissaBits == 53
MinExp == -1074
MaxExp == 971

Max(a, b) == IF a >= b THEN a ELSE b
Min(a, b) == IF a <= b THEN a ELSE b

\* Natural numbers of any size: sequences of limbs, no leading zero limb.
RECURSIVE BigTrim(_)
BigTrim(a) ==
    IF a # <<>> /\ a[Len(a)] = 0 THEN BigTrim(SubSeq(a, 1, Len(a) - 1)) ELSE a

BigLimb(a, k) == IF k \in DOMAIN a THEN a[k] ELSE 0

BigAdd(a, b) ==
    LET RECURSIVE AddFrom(_, _)
        AddFrom(k, carry) ==
            IF k > Len(a) /\ k > Len(b)
            THEN (IF carry = 0 THEN <<>> ELSE <<carry>>)
            ELSE LET t == BigLimb(a, k) + BigLimb(b, k) + carry
                 IN  <<t % Base>> \o AddFrom(k + 1, t \div Base)
    IN  AddFrom(1, 0)

\* a - b for a >= b.
BigSub(a, b) ==
    LET RECURSIVE SubFrom(_, _)
        SubFrom(k, borrow) ==
            IF k > Len(a) THEN <<>>
            ELSE LET t == BigLimb(a, k) - BigLimb(b, k) - borrow
                 IN  <<IF t < 0 THEN t + Base ELSE t>>
                     \o SubFrom(k + 1, IF t < 0 THEN 1 ELSE 0)
    IN  BigTrim(SubFrom(1, 0))

\* -1, 0, 1 as a is less than, equal to, greater than b.
BigCmp(a, b) ==
    LET RECURSIVE CmpFrom(_)
        CmpFrom(k) ==
            IF k = 0 THEN 0
            ELSE IF BigLimb(a, k) < BigLimb(b, k) THEN -1
            ELSE IF BigLimb(a, k) > BigLimb(b, k) THEN 1
            ELSE CmpFrom(k - 1)
    IN  CmpFrom(Max(Len(a), Len(b)))

\* a * n for 0 <= n <= Base.
BigMulSmall(a, n) ==
    LET RECURSIVE MulFrom(_, _)
        MulFrom(k, carry) ==
            IF k > Len(a) THEN (IF carry = 0 THEN <<>> ELSE <<carry>>)
            ELSE LET t == a[k] * n + carry
                 IN  <<t % Base>> \o MulFrom(k + 1, t \div Base)
    IN  BigTrim(MulFrom(1, 0))

\* a * Base^n
BigShiftLimbs(a, n) == IF a = <<>> THEN <<>> ELSE [k \in 1 .. n |-> 0] \o a

\* a * 2^bits
BigShl(a, bits) ==
    BigShiftLimbs(BigMulSmall(a, 2 ^ (bits % LimbBits)), bits \div LimbBits)

BigMul(a, b) ==
    LET RECURSIVE MulFrom(_)
        MulFrom(k) ==
            IF k > Len(b) THEN <<>>
            ELSE BigAdd(BigShiftLimbs(BigMulSmall(a, b[k]), k - 1),
                        MulFrom(k + 1))
    IN  BigTrim(MulFrom(1))

\* Quotient and remainder of a by d, 0 < d < Base.
BigDivSmall(a, d) ==
    LET RECURSIVE DivFrom(_, _)
        DivFrom(k, r) ==
            IF k = 0 THEN [q |-> <<>>, r |-> r]
            ELSE LET t == r * Base + a[k]
                     rest == DivFrom(k - 1, t % d)
                 IN  [q |-> rest.q \o <<t \div d>>, r |-> rest.r]
        x == DivFrom(Len(a), 0)
    IN  [q |-> BigTrim(x.q), r |-> x.r]

\* The number of bits of a: 0 for 0.
BigBitLen(a) ==
    IF a = <<>> THEN 0
    ELSE (Len(a) - 1) * LimbBits
         + (CHOOSE n \in 1 .. LimbBits :
               2 ^ (n - 1) <= a[Len(a)] /\ a[Len(a)] < 2 ^ n)

\* Bit pos of a, the lowest being bit 0.
BigBit(a, pos) ==
    (BigLimb(a, pos \div LimbBits + 1) \div 2 ^ (pos % LimbBits)) % 2

\* The n lowest bits of a are all 0.
BigLowZero(a, n) ==
    /\ \A k \in 1 .. n \div LimbBits : BigLimb(a, k) = 0
    /\ BigLimb(a, n \div LimbBits + 1) % 2 ^ (n % LimbBits) = 0

\* floor(a / 2^bits)
BigShr(a, bits) ==
    LET drop == bits \div LimbBits
        kept == IF drop >= Len(a) THEN <<>> ELSE SubSeq(a, drop + 1, Len(a))
    IN  BigDivSmall(kept, 2 ^ (bits % LimbBits)).q

\* The doubles.
NaN == [k |-> "nan", s |-> 1, m |-> <<0, 0, 0, 0>>, e |-> 0]
Inf(s) == [k |-> "inf", s |-> s, m |-> <<0, 0, 0, 0>>, e |-> 0]
Zero(s) == [k |-> "fin", s |-> s, m |-> <<0, 0, 0, 0>>, e |-> MinExp]

\* The double nearest to s * M * 2^E, ties to even.  Pack is the double of
\* mantissa m (at most 53 bits) and exponent e, or the infinity when that is
\* beyond the largest double.
RoundToDouble(s, M, E) ==
    LET Pack(m, e) ==
            IF e > MaxExp THEN Inf(s)
            ELSE [k |-> "fin", s |-> s,
                  m |-> [n \in 1 .. 4 |-> BigLimb(m, n)], e |-> e]
        L == BigBitLen(M)
        sh == Max(L - MantissaBits, MinExp - E)
    IN  IF M = <<>> THEN Zero(s)
        ELSE IF sh <= 0
             THEN LET t == Min(MantissaBits - L, E - MinExp)
                  IN  Pack(BigShl(M, t), E - t)
             ELSE LET q == BigShr(M, sh)
                      up == /\ BigBit(M, sh - 1) = 1
                            /\ (~BigLowZero(M, sh - 1) \/ BigBit(q, 0) = 1)
                      q1 == IF up THEN BigAdd(q, <<1>>) ELSE q
                  IN  IF BigBitLen(q1) > MantissaBits
                      THEN Pack(BigShr(q1, 1), E + sh + 1)
                      ELSE Pack(q1, E + sh)

IsNaN(x) == x.k = "nan"
IsFinite(x) == x.k = "fin"
IsZero(x) == x.k = "fin" /\ x.m = <<0, 0, 0, 0>>
Mant(x) == BigTrim(x.m)

\* A whole number as a double (exact: TLC's integers are below 2^31).
Whole(n) ==
    LET a == IF n < 0 THEN -n ELSE n
        limbs == <<a % Base, (a \div Base) % Base, a \div (Base * Base)>>
    IN  RoundToDouble(IF n < 0 THEN -1 ELSE 1, BigTrim(limbs), 0)

JsNeg(x) == IF x.k = "nan" THEN NaN ELSE [x EXCEPT !.s = -x.s]
JsAbs(x) == IF x.k = "nan" THEN NaN ELSE [x EXCEPT !.s = 1]

\* -1, 0, 1 as x is less than, equal to, greater than y; neither is NaN.
\* The magnitudes of two finite doubles compare by exponent, then by
\* mantissa.
Cmp(x, y) ==
    LET magnitude ==
            IF IsZero(x) \/ IsZero(y)
            THEN (IF IsZero(x) /\ IsZero(y) THEN 0
                  ELSE IF IsZero(x) THEN -1 ELSE 1)
            ELSE IF x.e < y.e THEN -1
            ELSE IF x.e > y.e THEN 1
            ELSE BigCmp(Mant(x), Mant(y))
    IN  IF x.k = "inf" \/ y.k = "inf"
        THEN LET a == IF x.k = "inf" THEN x.s ELSE 0
                 b == IF y.k = "inf" THEN y.s ELSE 0
             IN  IF a < b THEN -1 ELSE IF a > b THEN 1 ELSE 0
        ELSE IF IsZero(x) /\ IsZero(y) THEN 0
        ELSE IF x.s # y.s THEN (IF IsZero(x) THEN -y.s ELSE x.s)
        ELSE x.s * magnitude

\* x < y, x > y, x <= y: false whenever an operand is NaN.
JsLt(x, y) == ~IsNaN(x) /\ ~IsNaN(y) /\ Cmp(x, y) < 0
JsGt(x, y) == JsLt(y, x)
JsLe(x, y) == ~IsNaN(x) /\ ~IsNaN(y) /\ Cmp(x, y) <= 0

\* x + y
JsAdd(x, y) ==
    IF x.k = "nan" \/ y.k = "nan" THEN NaN
    ELSE IF x.k = "inf" /\ y.k = "inf" THEN (IF x.s = y.s THEN x ELSE NaN)
    ELSE IF x.k = "inf" THEN x
    ELSE IF y.k = "inf" THEN y
    ELSE IF IsZero(x) /\ IsZero(y)
         THEN Zero(IF x.s = -1 /\ y.s = -1 THEN -1 ELSE 1)
    ELSE IF IsZero(x) THEN y
    ELSE IF IsZero(y) THEN x
    ELSE LET hi == IF x.e >= y.e THEN x ELSE y
             lo == IF x.e >= y.e THEN y ELSE x
             d == hi.e - lo.e
         IN  IF d > MantissaBits + 2 THEN hi
             ELSE LET a == BigShl(Mant(hi), d)
                      b == Mant(lo)
                      c == BigCmp(a, b)
                  IN  IF hi.s = lo.s
                      THEN RoundToDouble(hi.s, BigAdd(a, b), lo.e)
                      ELSE IF c = 0 THEN Zero(1)
                      ELSE IF c > 0
                           THEN RoundToDouble(hi.s, BigSub(a, b), lo.e)
                           ELSE RoundToDouble(lo.s, BigSub(b, a), lo.e)

JsSub(x, y) == JsAdd(x, JsNeg(y))

\* x * y
JsMul(x, y) ==
    IF x.k = "nan" \/ y.k = "nan" THEN NaN
    ELSE IF x.k = "inf" \/ y.k = "inf"
         THEN (IF IsZero(x) \/ IsZero(y) THEN NaN ELSE Inf(x.s * y.s))
    ELSE RoundToDouble(x.s * y.s, BigMul(Mant(x), Mant(y)), x.e + y.e)

\* x / n for a whole number n, 0 <= n < Base: an array length or the
\* literal 100.  The quotient of the mantissa, scaled by 2^(2 * LimbBits),
\* carries a last bit that says whether the division left a remainder.
JsDiv(x, n) ==
    IF x.k = "nan" THEN NaN
    ELSE IF n = 0 THEN (IF IsZero(x) THEN NaN ELSE Inf(x.s))
    ELSE IF x.k = "inf" THEN x
    ELSE LET d == BigDivSmall(BigShiftLimbs(Mant(x), 2), n)
             q == BigAdd(BigShl(d.q, 1), IF d.r = 0 THEN <<>> ELSE <<1>>)
         IN  RoundToDouble(x.s, q, x.e - 2 * LimbBits - 1)

\* The double of the decimal literal n / 10^digits (digits <= 4).
Dec(n, digits) == JsDiv(Whole(n), 10 ^ digits)

\* Math.min(x, y)
JsMin(x, y) ==
    IF x.k = "nan" \/ y.k = "nan" THEN NaN
    ELSE IF Cmp(x, y) < 0 THEN x
    ELSE IF Cmp(y, x) < 0 THEN y
    ELSE IF x.s = -1 THEN x ELSE y

\* Math.round(x): the nearest whole number, halves toward +Infinity; -0
\* for -0.5 <= x < 0.
MathRound(x) ==
    IF x.k # "fin" \/ IsZero(x) \/ x.e >= 0 THEN x
    ELSE LET sh == -x.e
             q == BigShr(Mant(x), sh)
             half == BigBit(Mant(x), sh - 1) = 1
             more == ~BigLowZero(Mant(x), sh - 1)
             up == IF x.s = 1 THEN half ELSE half /\ more
         IN  RoundToDouble(x.s, IF up THEN BigAdd(q, <<1>>) ELSE q, 0)

\* Math.round(x * 100) / 100
JsRound2(x) == JsDiv(MathRound(JsMul(x, Whole(100))), 100)

\* The literal 0 and the 0.01 of every tolerance test in the source.
Zero0 == Zero(1)
Tolerance == Dec(1, 2)

\* reduce((sum, x) => sum + x, start), and a run of += statements: the
\* terms are added to start one at a time, in order.
RECURSIVE AddAll(_, _)
AddAll(start, terms) ==
    IF terms = <<>> THEN start
    ELSE AddAll(JsAdd(start, Head(terms)), Tail(terms))

\* The elements of a sequence.
Range(s) == {s[k] : k \in DOMAIN s}

\* The ids of a set, ascending: the order .collect() returns documents in
\* (creation order; ids are handed out in increasing order).
RECURSIVE Ascending(_)
Ascending(S) ==
    IF S = {} THEN <<>>
    ELSE LET m == CHOOSE x \in S : \A y \in S : x <= y
         IN  <<m>> \o Ascending(S \ {m})

----------------------------------------------------------------------------
(* balances.ts: calculateExpenseSplit *)

\* splitDetails is optional: Undefined when the field is absent.
Undefined == [defined |-> FALSE, items |-> <<>>]
Details(items) == [defined |-> TRUE, items |-> items]

\* Array.prototype.includes
Includes(s, x) == \E k \in DOMAIN s : s[k] = x

\* expense.splitDetails?.find((d) => d.memberId === memberId): the first
\* matching entry, as a sequence of zero or one entries.
FindDetail(expense, memberId) ==
    IF ~expense.splitDetails.defined THEN <<>>
    ELSE LET items == expense.splitDetails.items
             hits == {k \in DOMAIN items : items[k].memberId = memberId}
         IN  IF hits = {} THEN <<>>
             ELSE <<items[CHOOSE k \in hits : \A h \in hits : k <= h]>>

\* calculateExpenseSplit with the equal share taken over the distinct
\* participants instead of splitAmong.length, and the other types unchanged.
calculateExpenseSplit_distinct(expense, memberId) ==
    IF ~Includes(expense.splitAmong, memberId) THEN Zero0
    ELSE CASE expense.splitType = "equal" ->
                JsDiv(expense.amount, Cardinality(Range(expense.splitAmong)))
           [] expense.splitType = "exact" ->
                LET exactDetail == FindDetail(expense, memberId)
                IN  IF exactDetail = <<>> THEN Zero0 ELSE exactDetail[1].value
           [] expense.splitType = "percentage" ->
                LET percentDetail == FindDetail(expense, memberId)
                IN  IF percentDetail = <<>> THEN Zero0
                    ELSE JsDiv(JsMul(expense.amount, percentDetail[1].value),
                               100)
           [] OTHER -> Zero0

\* What memberId owes for one expense.  The function has no throw: every
\* path returns a number.
calculateExpenseSplit(expense, memberId) ==
    IF ~Includes(expense.splitAmong, memberId) THEN Zero0
    ELSE CASE expense.splitType = "equal" ->
                JsDiv(expense.amount, Len(expense.splitAmong))
           [] expense.splitType = "exact" ->
                LET exactDetail == FindDetail(expense, memberId)
                IN  IF exactDetail = <<>> THEN Zero0 ELSE exactDetail[1].value
           [] expense.splitType = "percentage" ->
                LET percentDetail == FindDetail(expense, memberId)
                IN  IF percentDetail = <<>> THEN Zero0
                    ELSE JsDiv(JsMul(expense.amount, percentDetail[1].value),
                               100)
           [] OTHER -> Zero0

\* Whether a call of calculateExpenseSplit throws: no statement of lines
\* 16-38 can (includes on an array, optional chaining on splitDetails, a
\* division of numbers).
calculateExpenseSplitThrows(expense, memberId) == FALSE

----------------------------------------------------------------------------
(* The document store *)

\* ctx.db.get(id): whether the document exists.
Exists(table, id) == id \in DOMAIN table

\* ctx.db.insert: the new document gets the next id of its table.
Insert(table, id, doc) == table @@ (id :> doc)

\* ctx.db.delete
Delete(table, id) == [x \in DOMAIN table \ {id} |-> table[x]]

\* ctx.db.patch(id, updates): the fields of updates replace the document's.
Patch(table, id, updates) ==
    [table EXCEPT ![id] =
        [f \in DOMAIN table[id] |->
            IF f \in DOMAIN updates THEN updates[f] ELSE table[id][f]]]

\* .withIndex("by_group", q => q.eq("groupId", groupId)).collect(): the ids
\* of the group's documents, in creation order.
ByGroup(table, groupId) ==
    Ascending({id \in DOMAIN table : table[id].groupId = groupId})

Threw(op) == [op |-> op, ok |-> FALSE]
Returned(op) == [op |-> op, ok |-> TRUE]

\* A mutation that throws: the transaction changes nothing.
Throw(op) ==
    /\ last' = Threw(op)
    /\ UNCHANGED <<groups, members, expenses, settlements, nextId>>

----------------------------------------------------------------------------
(* groups.ts *)

\* groups.create
groups_create ==
    LET groupId == nextId.groups + 1
    IN  /\ groups' = Insert(groups, groupId, [archived |-> FALSE])
        /\ nextId' = [nextId EXCEPT !.groups = groupId]
        /\ last' = Returned("groups.create")
        /\ UNCHANGED <<members, expenses, settlements>>

\* groups.archive: throws when the group does not exist, else sets the
\* field archived.
groups_archive(groupId) ==
    IF ~Exists(groups, groupId) THEN Throw("groups.archive")
    ELSE /\ groups' = [groups EXCEPT ![groupId].archived = TRUE]
         /\ last' = Returned("groups.archive")
         /\ UNCHANGED <<members, expenses, settlements, nextId>>

\* groups.restore: throws when the group does not exist, else clears the
\* field archived.
groups_restore(groupId) ==
    IF ~Exists(groups, groupId) THEN Throw("groups.restore")
    ELSE /\ groups' = [groups EXCEPT ![groupId].archived = FALSE]
         /\ last' = Returned("groups.restore")
         /\ UNCHANGED <<members, expenses, settlements, nextId>>

\* groups.remove without the deletion of the settlements (lines 113-120
\* left out).
groups_remove_keepSettlements(groupId) ==
    IF ~Exists(groups, groupId) THEN Throw("groups.remove")
    ELSE /\ members' = [m \in {x \in DOMAIN members :
                                  members[x].groupId # groupId} |-> members[m]]
         /\ expenses' = [e \in {x \in DOMAIN expenses :
                                  expenses[x].groupId # groupId} |-> expenses[e]]
         /\ groups' = Delete(groups, groupId)
         /\ last' = Returned("groups.remove")
         /\ UNCHANGED <<settlements, nextId>>

\* groups.remove: the group and every member, expense and settlement of it.
groups_remove(groupId) ==
    IF ~Exists(groups, groupId) THEN Throw("groups.remove")
    ELSE /\ members' = [m \in {x \in DOMAIN members :
                                  members[x].groupId # groupId} |-> members[m]]
         /\ expenses' = [e \in {x \in DOMAIN expenses :
                                  expenses[x].groupId # groupId} |-> expenses[e]]
         /\ settlements' = [s \in {x \in DOMAIN settlements :
                                  settlements[x].groupId # groupId} |-> settlements[s]]
         /\ groups' = Delete(groups, groupId)
         /\ last' = Returned("groups.remove")
         /\ UNCHANGED nextId

----------------------------------------------------------------------------
(* members.ts *)

\* members.add
members_add(groupId) ==
    IF ~Exists(groups, groupId) THEN Throw("members.add")
    ELSE LET memberId == nextId.members + 1
         IN  /\ members' = Insert(members, memberId,
                                  [groupId |-> groupId, isActive |-> TRUE])
             /\ nextId' = [nextId EXCEPT !.members = memberId]
             /\ last' = Returned("members.add")
             /\ UNCHANGED <<groups, expenses, settlements>>

\* members.addBulk with an array of n members.
members_addBulk(groupId, n) ==
    IF ~Exists(groups, groupId) THEN Throw("members.addBulk")
    ELSE /\ members' = [m \in DOMAIN members \cup
                               (nextId.members + 1 .. nextId.members + n) |->
                          IF m \in DOMAIN members THEN members[m]
                          ELSE [groupId |-> groupId, isActive |-> TRUE]]
         /\ nextId' = [nextId EXCEPT !.members = nextId.members + n]
         /\ last' = Returned("members.addBulk")
         /\ UNCHANGED <<groups, expenses, settlements>>

\* members.deactivate
members_deactivate(memberId) ==
    IF ~Exists(members, memberId) THEN Throw("members.deactivate")
    ELSE /\ members' = Patch(members, memberId, [isActive |-> FALSE])
         /\ last' = Returned("members.deactivate")
         /\ UNCHANGED <<groups, expenses, settlements, nextId>>

\* members.reactivate
members_reactivate(memberId) ==
    IF ~Exists(members, memberId) THEN Throw("members.reactivate")
    ELSE /\ members' = Patch(members, memberId, [isActive |-> TRUE])
         /\ last' = Returned("members.reactivate")
         /\ UNCHANGED <<groups, expenses, settlements, nextId>>

\* The two tests of members.remove: an expense (of any group, index
\* by_paidBy) paid by the member; an expense of the member's own group
\* whose splitAmong includes the member.
expensesAsPayer(memberId) ==
    \E e \in DOMAIN expenses : expenses[e].paidBy = memberId

isInSplit(memberId) ==
    \E e \in DOMAIN expenses :
        /\ expenses[e].groupId = members[memberId].groupId
        /\ Includes(expenses[e].splitAmong, memberId)

\* members.remove
members_remove(memberId) ==
    IF ~Exists(members, memberId) THEN Throw("members.remove")
    ELSE IF expensesAsPayer(memberId) THEN Throw("members.remove")
    ELSE IF isInSplit(memberId) THEN Throw("members.remove")
    ELSE /\ members' = Delete(members, memberId)
         /\ last' = Returned("members.remove")
         /\ UNCHANGED <<groups, expenses, settlements, nextId>>

----------------------------------------------------------------------------
(* expenses.ts *)

\* ctx.db.insert("expenses", ...) of the three create mutations.
InsertExpense(op, doc) ==
    LET expenseId == nextId.expenses + 1
    IN  /\ expenses' = Insert(expenses, expenseId, doc)
        /\ nextId' = [nextId EXCEPT !.expenses = expenseId]
        /\ last' = Returned(op)
        /\ UNCHANGED <<groups, members, settlements>>

\* expenses.createEqual.  amount is a v.number(): any double; NaN <= 0 and
\* Infinity <= 0 are false.
createEqual(groupId, amount, paidBy, splitAmong) ==
    IF ~Exists(groups, groupId) THEN Throw("expenses.createEqual")
    ELSE IF JsLe(amount, Zero0) THEN Throw("expenses.createEqual")
    ELSE IF Len(splitAmong) = 0 THEN Throw("expenses.createEqual")
    ELSE InsertExpense("expenses.createEqual",
            [groupId |-> groupId, amount |-> amount, paidBy |-> paidBy,
             splitAmong |-> splitAmong, splitType |-> "equal",
             splitDetails |-> Undefined])

\* args.splitDetails.reduce((sum, detail) => sum + detail.value, 0)
TotalOfDetails(splitDetails) ==
    AddAll(Zero0, [k \in DOMAIN splitDetails |-> splitDetails[k].value])

\* args.splitDetails.map((d) => d.memberId)
MemberIdsOf(splitDetails) ==
    [k \in DOMAIN splitDetails |-> splitDetails[k].memberId]

\* expenses.createExact with the test of the details' total against the
\* amount taken without Math.abs (line 123 changed).
createExact_noAbs(groupId, amount, paidBy, splitDetails) ==
    IF ~Exists(groups, groupId) THEN Throw("expenses.createExact")
    ELSE IF JsLe(amount, Zero0) THEN Throw("expenses.createExact")
    ELSE IF Len(splitDetails) = 0 THEN Throw("expenses.createExact")
    ELSE IF JsGt(JsSub(TotalOfDetails(splitDetails), amount), Tolerance)
         THEN Throw("expenses.createExact")
    ELSE InsertExpense("expenses.createExact",
            [groupId |-> groupId, amount |-> amount, paidBy |-> paidBy,
             splitAmong |-> MemberIdsOf(splitDetails), splitType |-> "exact",
             splitDetails |-> Details(splitDetails)])

\* expenses.createExact
createExact(groupId, amount, paidBy, splitDetails) ==
    IF ~Exists(groups, groupId) THEN Throw("expenses.createExact")
    ELSE IF JsLe(amount, Zero0) THEN Throw("expenses.createExact")
    ELSE IF Len(splitDetails) = 0 THEN Throw("expenses.createExact")
    ELSE IF JsGt(JsAbs(JsSub(TotalOfDetails(splitDetails), amount)),
                 Tolerance)
         THEN Throw("expenses.createExact")
    ELSE InsertExpense("expenses.createExact",
            [groupId |-> groupId, amount |-> amount, paidBy |-> paidBy,
             splitAmong |-> MemberIdsOf(splitDetails), splitType |-> "exact",
             splitDetails |-> Details(splitDetails)])

\* expenses.createPercentage
createPercentage(groupId, amount, paidBy, splitDetails) ==
    IF ~Exists(groups, groupId) THEN Throw("expenses.createPercentage")
    ELSE IF JsLe(amount, Zero0) THEN Throw("expenses.createPercentage")
    ELSE IF Len(splitDetails) = 0 THEN Throw("expenses.createPercentage")
    ELSE IF JsGt(JsAbs(JsSub(TotalOfDetails(splitDetails), Whole(100))),
                 Tolerance)
         THEN Throw("expenses.createPercentage")
    ELSE InsertExpense("expenses.createPercentage",
            [groupId |-> groupId, amount |-> amount, paidBy |-> paidBy,
             splitAmong |-> MemberIdsOf(splitDetails),
             splitType |-> "percentage",
             splitDetails |-> Details(splitDetails)])

\* expenses.update: updates holds the arguments that are not undefined
\* (amount, paidBy, splitAmong, splitType, splitDetails); none is validated.
expenses_update(expenseId, updates) ==
    IF ~Exists(expenses, expenseId) THEN Throw("expenses.update")
    ELSE /\ expenses' = Patch(expenses, expenseId, updates)
         /\ last' = Returned("expenses.update")
         /\ UNCHANGED <<groups, members, settlements, nextId>>

\* expenses.remove
expenses_remove(expenseId) ==
    IF ~Exists(expenses, expenseId) THEN Throw("expenses.remove")
    ELSE /\ expenses' = Delete(expenses, expenseId)
         /\ last' = Returned("expenses.remove")
         /\ UNCHANGED <<groups, members, settlements, nextId>>

----------------------------------------------------------------------------
(* settlements (expenses.ts 280-436) *)

\* settlements.create.  amount is a v.number(): any double, NaN included,
\* and NaN <= 0 is false.
settlements_create(groupId, fromMember, toMember, amount) ==
    IF ~Exists(groups, groupId) THEN Throw("settlements.create")
    ELSE IF JsLe(amount, Zero0) THEN Throw("settlements.create")
    ELSE IF fromMember = toMember THEN Throw("settlements.create")
    ELSE IF ~Exists(members, fromMember) \/ ~Exists(members, toMember)
         THEN Throw("settlements.create")
    ELSE LET settlementId == nextId.settlements + 1
         IN  /\ settlements' = Insert(settlements, settlementId,
                    [groupId |-> groupId, fromMember |-> fromMember,
                     toMember |-> toMember, amount |-> amount])
             /\ nextId' = [nextId EXCEPT !.settlements = settlementId]
             /\ last' = Returned("settlements.create")
             /\ UNCHANGED <<groups, members, expenses>>

\* settlements.update: updates holds amount when it is not undefined.
settlements_update(settlementId, updates) ==
    IF ~Exists(settlements, settlementId) THEN Throw("settlements.update")
    ELSE IF "amount" \in DOMAIN updates /\ JsLe(updates.amount, Zero0)
         THEN Throw("settlements.update")
    ELSE /\ settlements' = Patch(settlements, settlementId, updates)
         /\ last' = Returned("settlements.update")
         /\ UNCHANGED <<groups, members, expenses, nextId>>

\* settlements.remove
settlements_remove(settlementId) ==
    IF ~Exists(settlements, settlementId) THEN Throw("settlements.remove")
    ELSE /\ settlements' = Delete(settlements, settlementId)
         /\ last' = Returned("settlements.remove")
         /\ UNCHANGED <<groups, members, expenses, nextId>>

----------------------------------------------------------------------------
(* balances.ts: the queries.  Each reads the group's members, expenses and *)
(* settlements with the by_group index.                                     *)

\* The amounts of the documents ids of a table, in order.
AmountsOf(table, ids) == [k \in DOMAIN ids |-> table[ids[k]].amount]

\* The amounts of the documents of ids, in order, whose field is memberId.
RECURSIVE AmountsWhere(_, _, _, _)
AmountsWhere(table, ids, field, memberId) ==
    IF ids = <<>> THEN <<>>
    ELSE (IF table[Head(ids)][field] = memberId
          THEN <<table[Head(ids)].amount>> ELSE <<>>)
         \o AmountsWhere(table, Tail(ids), field, memberId)

\* The member's share of each expense of ids, in order.
SharesOfMember(ids, memberId) ==
    [k \in DOMAIN ids |-> calculateExpenseSplit(expenses[ids[k]], memberId)]

\* getMemberBalances, lines 62-86, for one member: totalPaid takes, in
\* order, the amount of every expense the member paid and then of every
\* settlement the member sent.
totalPaid(groupId, memberId) ==
    AddAll(Zero0,
           AmountsWhere(expenses, ByGroup(expenses, groupId), "paidBy", memberId)
           \o AmountsWhere(settlements, ByGroup(settlements, groupId),
                           "fromMember", memberId))

\* totalOwes without the settlements received (lines 82-85 left out).
totalOwes_noSettlements(groupId, memberId) ==
    AddAll(Zero0, SharesOfMember(ByGroup(expenses, groupId), memberId))

\* totalOwes takes the member's share of every expense and then the amount
\* of every settlement the member received.
totalOwes(groupId, memberId) ==
    AddAll(Zero0,
           SharesOfMember(ByGroup(expenses, groupId), memberId)
           \o AmountsWhere(settlements, ByGroup(settlements, groupId),
                           "toMember", memberId))

\* getMemberBalances with the balance rounded to cents (line 88 changed).
getMemberBalances_rounded(groupId) ==
    LET ms == ByGroup(members, groupId)
    IN  [k \in DOMAIN ms |->
            [memberId |-> ms[k],
             totalPaid |-> totalPaid(groupId, ms[k]),
             totalOwes |-> totalOwes(groupId, ms[k]),
             balance |-> JsRound2(JsSub(totalPaid(groupId, ms[k]),
                                        totalOwes(groupId, ms[k])))]]

\* getMemberBalances: one entry per member of the group, in members' order.
getMemberBalances(groupId) ==
    LET ms == ByGroup(members, groupId)
    IN  [k \in DOMAIN ms |->
            [memberId |-> ms[k],
             totalPaid |-> totalPaid(groupId, ms[k]),
             totalOwes |-> totalOwes(groupId, ms[k]),
             balance |-> JsSub(totalPaid(groupId, ms[k]),
                               totalOwes(groupId, ms[k]))]]

\* getDetailedDebts, lines 122-148: debts has one row per member of the
\* group.  debts[memberId][payerId] += ... and debts[fromMember][toMember]
\* -= ... read a property of undefined, a TypeError, when the row key is not
\* a member of the group.  (A missing column key only stores NaN in a cell
\* that the netting loop, which walks members x members, never reads.)
getDetailedDebtsThrows(groupId) ==
    LET ms == Range(ByGroup(members, groupId))
        es == Range(ByGroup(expenses, groupId))
        ss == Range(ByGroup(settlements, groupId))
    IN  \/ \E e \in es : \E k \in DOMAIN expenses[e].splitAmong :
              /\ expenses[e].splitAmong[k] # expenses[e].paidBy
              /\ expenses[e].splitAmong[k] \notin ms
        \/ \E s \in ss : settlements[s].fromMember \notin ms

\* Lines 134-143 for one cell: what the expenses of ids add to
\* debts[a][b], in order: the share of a, once for every entry of an
\* expense's splitAmong that is a, when b paid and a is not b.
RECURSIVE OwedTerms(_, _, _)
OwedTerms(ids, a, b) ==
    IF ids = <<>> THEN <<>>
    ELSE LET e == expenses[Head(ids)]
             hits == {k \in DOMAIN e.splitAmong :
                        e.splitAmong[k] = a /\ e.splitAmong[k] # e.paidBy}
         IN  (IF e.paidBy = b
              THEN [k \in 1 .. Cardinality(hits) |-> calculateExpenseSplit(e, a)]
              ELSE <<>>)
             \o OwedTerms(Tail(ids), a, b)

\* Lines 146-148 for one cell: what the settlements of ids take from
\* debts[a][b], in order.
RECURSIVE SettledTerms(_, _, _)
SettledTerms(ids, a, b) ==
    IF ids = <<>> THEN <<>>
    ELSE (IF settlements[Head(ids)].fromMember = a
             /\ settlements[Head(ids)].toMember = b
          THEN <<JsNeg(settlements[Head(ids)].amount)>> ELSE <<>>)
         \o SettledTerms(Tail(ids), a, b)

\* The debt matrix without the settlements (lines 145-148 left out).
debts_noSettlements(groupId) ==
    LET ms == Range(ByGroup(members, groupId))
    IN  [a \in ms |-> [b \in ms |->
            AddAll(Zero0, OwedTerms(ByGroup(expenses, groupId), a, b))]]

\* getDetailedDebts, lines 122-148: the debt matrix, debts[debtor][creditor],
\* over the members of the group (when no statement throws).  Every cell
\* starts at 0; every entry k of an expense's splitAmong other than the
\* payer adds the member's share to debts[splitAmong[k]][paidBy]; then
\* every settlement subtracts its amount from debts[fromMember][toMember].
debts(groupId) ==
    LET ms == Range(ByGroup(members, groupId))
    IN  [a \in ms |-> [b \in ms |->
            AddAll(Zero0,
                   OwedTerms(ByGroup(expenses, groupId), a, b)
                   \o SettledTerms(ByGroup(settlements, groupId), a, b))]]

\* [debtor._id, creditor._id].sort().join("-"): the pair in canonical order.
pairKey(x, y) == IF x <= y THEN <<x, y>> ELSE <<y, x>>

\* for (const debtor of members) for (const creditor of members): the
\* ordered pairs the two loops of lines 161-162 visit, in order.
RECURSIVE DebtorCreditorPairs(_, _)
DebtorCreditorPairs(ms, k) ==
    IF k > Len(ms) THEN <<>>
    ELSE [c \in DOMAIN ms |-> <<ms[k], ms[c]>>]
         \o DebtorCreditorPairs(ms, k + 1)

\* What one visit of a pair pushes onto simplifiedDebts, lines 169-192.
netDebt(matrix, debtor, creditor) ==
    JsSub(matrix[debtor][creditor], matrix[creditor][debtor])

Pushed(matrix, debtor, creditor) ==
    LET net == netDebt(matrix, debtor, creditor)
    IN  IF JsGt(JsAbs(net), Tolerance)
        THEN IF JsGt(net, Zero0)
             THEN <<[from |-> debtor, to |-> creditor,
                     amount |-> JsRound2(net)]>>
             ELSE <<[from |-> creditor, to |-> debtor,
                     amount |-> JsRound2(JsNeg(net))]>>
        ELSE <<>>

\* The netting loop without the processed set (lines 165-167 left out).
RECURSIVE NetPairs_noProcessed(_, _, _, _)
NetPairs_noProcessed(pairs, matrix, processed, out) ==
    IF pairs = <<>> THEN out
    ELSE LET debtor == Head(pairs)[1]
             creditor == Head(pairs)[2]
         IN  IF debtor = creditor
             THEN NetPairs_noProcessed(Tail(pairs), matrix, processed, out)
             ELSE NetPairs_noProcessed(Tail(pairs), matrix, processed,
                                       out \o Pushed(matrix, debtor, creditor))

\* The netting loop, lines 161-194.
RECURSIVE NetPairs(_, _, _, _)
NetPairs(pairs, matrix, processed, out) ==
    IF pairs = <<>> THEN out
    ELSE LET debtor == Head(pairs)[1]
             creditor == Head(pairs)[2]
         IN  IF debtor = creditor
             THEN NetPairs(Tail(pairs), matrix, processed, out)
             ELSE IF pairKey(debtor, creditor) \in processed
             THEN NetPairs(Tail(pairs), matrix, processed, out)
             ELSE NetPairs(Tail(pairs), matrix,
                           processed \cup {pairKey(debtor, creditor)},
                           out \o Pushed(matrix, debtor, creditor))

\* Lines 150-195: the simplified debts of a matrix over the members ms.
simplifiedDebts(ms, matrix) ==
    NetPairs(DebtorCreditorPairs(ms, 1), matrix, {}, <<>>)

getDetailedDebts(groupId) ==
    simplifiedDebts(ByGroup(members, groupId), debts(groupId))

\* getMemberBalances and getOptimizedSettlements only compare ids and add
\* numbers: no statement of lines 61-97 or 219-293 throws.  Whether
\* getOptimizedSettlements returns is part of its result, below.
getMemberBalancesThrows(groupId) == FALSE
getOptimizedSettlementsThrows(groupId) == FALSE

----------------------------------------------------------------------------
(* balances.ts: getOptimizedSettlements *)

\* Lines 222-241: the member's balance as the optimizer accumulates it.
\* ExpenseTerms is what the expenses of ids add to it, in order (lines
\* 225-231: the amount when the member paid, then the share taken off),
\* SettlementTerms what the settlements add (lines 234-241).
netBalance(groupId, memberId) ==
    LET RECURSIVE ExpenseTerms(_)
        ExpenseTerms(ids) ==
            IF ids = <<>> THEN <<>>
            ELSE LET e == expenses[Head(ids)]
                 IN  (IF e.paidBy = memberId THEN <<e.amount>> ELSE <<>>)
                     \o <<JsNeg(calculateExpenseSplit(e, memberId))>>
                     \o ExpenseTerms(Tail(ids))
        RECURSIVE SettlementTerms(_)
        SettlementTerms(ids) ==
            IF ids = <<>> THEN <<>>
            ELSE LET t == settlements[Head(ids)]
                 IN  (IF t.fromMember = memberId THEN <<t.amount>> ELSE <<>>)
                     \o (IF t.toMember = memberId
                         THEN <<JsNeg(t.amount)>> ELSE <<>>)
                     \o SettlementTerms(Tail(ids))
    IN  AddAll(Zero0,
               ExpenseTerms(ByGroup(expenses, groupId))
               \o SettlementTerms(ByGroup(settlements, groupId)))

\* Lines 219-250: the members, in order, whose balance is off zero by more
\* than 0.01 (line 243), with the balance rounded to cents (line 247).
netBalances(groupId) ==
    LET RECURSIVE KeepUnsettled(_)
        KeepUnsettled(ms) ==
            IF ms = <<>> THEN <<>>
            ELSE LET balance == netBalance(groupId, Head(ms))
                 IN  (IF JsGt(JsAbs(balance), Tolerance)
                      THEN <<[memberId |-> Head(ms),
                              balance |-> JsRound2(balance)]>>
                      ELSE <<>>)
                     \o KeepUnsettled(Tail(ms))
    IN  KeepUnsettled(ByGroup(members, groupId))

\* Array.prototype.filter
RECURSIVE SelectPositive(_)
SelectPositive(s) ==
    IF s = <<>> THEN <<>>
    ELSE (IF JsGt(Head(s).balance, Zero0) THEN <<Head(s)>> ELSE <<>>)
         \o SelectPositive(Tail(s))

RECURSIVE SelectNegative(_)
SelectNegative(s) ==
    IF s = <<>> THEN <<>>
    ELSE (IF JsLt(Head(s).balance, Zero0) THEN <<Head(s)>> ELSE <<>>)
         \o SelectNegative(Tail(s))

\* Array.prototype.sort is stable; the comparators are (a, b) => b.balance -
\* a.balance (descending) and (a, b) => a.balance - b.balance (ascending).
\* x comes strictly before e when the comparator is negative (a NaN
\* comparator, Infinity - Infinity, counts as 0).
Before(x, e, descending) ==
    IF descending THEN JsLt(JsSub(e.balance, x.balance), Zero0)
    ELSE JsLt(JsSub(x.balance, e.balance), Zero0)

RECURSIVE SortByBalance(_, _)
SortByBalance(s, descending) ==
    IF s = <<>> THEN <<>>
    ELSE LET sorted == SortByBalance(SubSeq(s, 1, Len(s) - 1), descending)
             x == s[Len(s)]
             keep == Cardinality({k \in DOMAIN sorted :
                                    ~Before(x, sorted[k], descending)})
         IN  SubSeq(sorted, 1, keep) \o <<x>>
             \o SubSeq(sorted, keep + 1, Len(sorted))

\* Lines 253-258.
Creditors(net) == SortByBalance(SelectPositive(net), TRUE)
Debtors(net) == SortByBalance(SelectNegative(net), FALSE)

\* The loop's test, line 272 (st.i and st.j count from 0).
LoopTest(st) == st.i < Len(st.debtors) /\ st.j < Len(st.creditors)

\* One iteration of the loop, lines 273-292.
LoopBody(st) ==
    LET debtor == st.debtors[st.i + 1]
        creditor == st.creditors[st.j + 1]
        amount == JsMin(JsNeg(debtor.balance), creditor.balance)
        dBalance == JsAdd(debtor.balance, amount)
        cBalance == JsSub(creditor.balance, amount)
    IN  [debtors |-> [st.debtors EXCEPT ![st.i + 1].balance = dBalance],
         creditors |-> [st.creditors EXCEPT ![st.j + 1].balance = cBalance],
         suggestedSettlements |->
            IF JsGt(amount, Tolerance)
            THEN Append(st.suggestedSettlements,
                        [from |-> debtor.memberId, to |-> creditor.memberId,
                         amount |-> JsRound2(amount)])
            ELSE st.suggestedSettlements,
         i |-> IF JsLt(JsAbs(dBalance), Tolerance) THEN st.i + 1 ELSE st.i,
         j |-> IF JsLt(JsAbs(cBalance), Tolerance) THEN st.j + 1 ELSE st.j]

\* The loop's state at line 269-270.
LoopStart(net) ==
    [debtors |-> Debtors(net), creditors |-> Creditors(net),
     suggestedSettlements |-> <<>>, i |-> 0, j |-> 0]

\* The loop run until its test fails, or until an iteration leaves the
\* state as it found it: every later iteration then does the same, and the
\* loop never ends.  An iteration between finite balances zeroes the
\* smaller of the two and advances past it; one between -Infinity and
\* +Infinity turns both into NaN, advances nothing, and repeats.
RECURSIVE RunLoop(_)
RunLoop(st) ==
    IF LoopTest(st) /\ LoopBody(st) # st THEN RunLoop(LoopBody(st)) ELSE st

\* getOptimizedSettlements for a group of the store: the suggestions the
\* handler returns (line 295), or no return when the loop never ends.
getOptimizedSettlements(groupId) ==
    LET end == RunLoop(LoopStart(netBalances(groupId)))
    IN  IF LoopTest(end)
        THEN [returns |-> FALSE, value |-> <<>>]
        ELSE [returns |-> TRUE, value |-> end.suggestedSettlements]

----------------------------------------------------------------------------
(* balances.ts: getGroupSummary (the category breakdown is left out: the   *)
(* model's expenses carry no category)                                      *)

getGroupSummary(groupId) ==
    LET ms == ByGroup(members, groupId)
        es == ByGroup(expenses, groupId)
        ss == ByGroup(settlements, groupId)
        totalExpenses == AddAll(Zero0, AmountsOf(expenses, es))
        totalSettled == AddAll(Zero0, AmountsOf(settlements, ss))
        activeCount == Cardinality({m \in Range(ms) : members[m].isActive})
    IN  [memberCount |-> activeCount,
         totalMembers |-> Len(ms),
         expenseCount |-> Len(es),
         totalExpenses |-> totalExpenses,
         settlementCount |-> Len(ss),
         totalSettled |-> totalSettled,
         averageExpense |->
            IF Len(es) > 0 THEN JsDiv(totalExpenses, Len(es)) ELSE Zero0,
         perPersonAverage |->
            IF Len(ms) > 0 THEN JsDiv(totalExpenses, activeCount)
            ELSE Zero0]

\* Line 348: the query throws when the group does not exist.
getGroupSummaryThrows(groupId) == ~Exists(groups, groupId)

----------------------------------------------------------------------------
(* Spec: the store under every mutation, from the empty database.          *)
(* groups.update and members.update change only fields that the model does *)
(* not hold (name, description, email, phone) and are left out.            *)

EmptyTable == [x \in {} |-> 0]

Idle == [fn |-> "none"]

IdleLoop ==
    /\ pc = "idle" /\ i = 0 /\ j = 0
    /\ debtors = <<>> /\ creditors = <<>> /\ suggestedSettlements = <<>>

Init ==
    /\ groups = EmptyTable /\ members = EmptyTable
    /\ expenses = EmptyTable /\ settlements = EmptyTable
    /\ nextId = [groups |-> 0, members |-> 0, expenses |-> 0, settlements |-> 0]
    /\ last = Returned("init")
    /\ call = Idle
    /\ IdleLoop

\* The ids a caller can hold: those handed out so far, deleted or not.
GroupArgs == 1 .. nextId.groups
MemberArgs == 1 .. nextId.members
ExpenseArgs == 1 .. nextId.expenses
SettlementArgs == 1 .. nextId.settlements

\* The sequences over S of length lo to hi.
SeqsOf(S, lo, hi) == UNION {[1 .. n -> S] : n \in lo .. hi}

\* Arguments of the mutations.  Amounts are 0 (rejected), 100.00 and
\* Infinity; a detail list has at most one entry, of value 50 or 100.
AmountArgs == {Zero0, Whole(100), Inf(1)}
SplitAmongArgs == SeqsOf(MemberArgs, 0, MaxSplit)
SplitDetailsArgs ==
    SeqsOf([memberId : MemberArgs, value : {Whole(50), Whole(100)}], 0, 1)

\* expenses.update with one argument given, or none: a payer or a
\* participant list.
ExpenseUpdateArgs ==
    {EmptyTable}
    \cup {[f \in {"paidBy"} |-> m] : m \in MemberArgs}
    \cup {[f \in {"splitAmong"} |-> s] : s \in SeqsOf(MemberArgs, 0, 1)}

\* settlements.update with an amount, or nothing.
SettlementAmountArgs == {Zero0, Whole(100), NaN}
SettlementUpdateArgs ==
    {EmptyTable}
    \cup {[f \in {"amount"} |-> a] : a \in {Zero0, NaN}}

GroupsCreate ==
    /\ nextId.groups < MaxGroups
    /\ groups_create
    /\ UNCHANGED <<call, loopVars>>
GroupsArchive ==
    /\ \E g \in GroupArgs : groups_archive(g)
    /\ UNCHANGED <<call, loopVars>>
GroupsRestore ==
    /\ \E g \in GroupArgs : groups_restore(g)
    /\ UNCHANGED <<call, loopVars>>
GroupsRemove ==
    /\ \E g \in GroupArgs : groups_remove(g)
    /\ UNCHANGED <<call, loopVars>>
MembersAdd ==
    /\ nextId.members < MaxMembers
    /\ \E g \in GroupArgs : members_add(g)
    /\ UNCHANGED <<call, loopVars>>
MembersAddBulk ==
    /\ \E g \in GroupArgs : \E n \in 0 .. 2 :
        /\ nextId.members + n <= MaxMembers
        /\ members_addBulk(g, n)
    /\ UNCHANGED <<call, loopVars>>
MembersDeactivate ==
    /\ \E m \in MemberArgs : members_deactivate(m)
    /\ UNCHANGED <<call, loopVars>>
MembersReactivate ==
    /\ \E m \in MemberArgs : members_reactivate(m)
    /\ UNCHANGED <<call, loopVars>>
MembersRemove ==
    /\ \E m \in MemberArgs : members_remove(m)
    /\ UNCHANGED <<call, loopVars>>
ExpensesCreateEqual ==
    /\ nextId.expenses < MaxExpenses
    /\ \E g \in GroupArgs, a \in AmountArgs, p \in MemberArgs,
          s \in SplitAmongArgs : createEqual(g, a, p, s)
    /\ UNCHANGED <<call, loopVars>>
ExpensesCreateExact ==
    /\ nextId.expenses < MaxExpenses
    /\ \E g \in GroupArgs, a \in AmountArgs, p \in MemberArgs,
          d \in SplitDetailsArgs : createExact(g, a, p, d)
    /\ UNCHANGED <<call, loopVars>>
ExpensesCreatePercentage ==
    /\ nextId.expenses < MaxExpenses
    /\ \E g \in GroupArgs, a \in AmountArgs, p \in MemberArgs,
          d \in SplitDetailsArgs : createPercentage(g, a, p, d)
    /\ UNCHANGED <<call, loopVars>>
ExpensesUpdate ==
    /\ \E e \in ExpenseArgs, u \in ExpenseUpdateArgs : expenses_update(e, u)
    /\ UNCHANGED <<call, loopVars>>
ExpensesRemove ==
    /\ \E e \in ExpenseArgs : expenses_remove(e)
    /\ UNCHANGED <<call, loopVars>>
SettlementsCreate ==
    /\ nextId.settlements < MaxSettlements
    /\ \E g \in GroupArgs, f \in MemberArgs, t \in MemberArgs,
          a \in SettlementAmountArgs : settlements_create(g, f, t, a)
    /\ UNCHANGED <<call, loopVars>>
SettlementsUpdate ==
    /\ \E s \in SettlementArgs, u \in SettlementUpdateArgs : settlements_update(s, u)
    /\ UNCHANGED <<call, loopVars>>
SettlementsRemove ==
    /\ \E s \in SettlementArgs : settlements_remove(s)
    /\ UNCHANGED <<call, loopVars>>

Next ==
    \/ GroupsCreate
    \/ GroupsArchive
    \/ GroupsRestore
    \/ GroupsRemove
    \/ MembersAdd
    \/ MembersAddBulk
    \/ MembersDeactivate
    \/ MembersReactivate
    \/ MembersRemove
    \/ ExpensesCreateEqual
    \/ ExpensesCreateExact
    \/ ExpensesCreatePercentage
    \/ ExpensesUpdate
    \/ ExpensesRemove
    \/ SettlementsCreate
    \/ SettlementsUpdate
    \/ SettlementsRemove

Spec == Init /\ [][Next]_vars

----------------------------------------------------------------------------
(* SpecSplit: calculateExpenseSplit as a pure function.  Init draws an     *)
(* expense and a member id, Compute applies the function.  The split types *)
(* are the three of the schema (groups.ts 156-160), the only ones a stored *)
(* expense can carry.                                                      *)

\* Amounts 90 and 100; detail values 30 and 33.33 (an amount or a percentage).
SplitInputValues == {Whole(30), Dec(3333, 2)}

SplitInputDetails ==
    {Undefined} \cup
    {Details(d) : d \in SeqsOf([memberId : 1 .. SplitMembers,
                                value : SplitInputValues], 0, MaxDetails)}

SplitInputExpenses ==
    [groupId : {1}, amount : {Whole(90), Whole(100)}, paidBy : {1},
     splitAmong : SeqsOf(1 .. SplitMembers, 0, SplitLen),
     splitType : {"equal", "exact", "percentage"},
     splitDetails : SplitInputDetails]

EmptyStore ==
    /\ groups = EmptyTable /\ members = EmptyTable
    /\ expenses = EmptyTable /\ settlements = EmptyTable
    /\ nextId = [groups |-> 0, members |-> 0, expenses |-> 0, settlements |-> 0]
    /\ last = Returned("init")

InitSplit ==
    /\ EmptyStore
    /\ IdleLoop
    /\ \E e \in SplitInputExpenses, m \in 1 .. SplitMembers :
          call = [fn |-> "calculateExpenseSplit", expense |-> e, memberId |-> m,
                  done |-> FALSE, threw |-> FALSE, result |-> Zero0]

Compute ==
    /\ call.fn = "calculateExpenseSplit" /\ ~call.done
    /\ call' = [call EXCEPT
                  !.done = TRUE,
                  !.threw = calculateExpenseSplitThrows(call.expense, call.memberId),
                  !.result = calculateExpenseSplit(call.expense, call.memberId)]
    /\ UNCHANGED <<storeVars, loopVars>>

NextSplit == Compute

SpecSplit == InitSplit /\ [][NextSplit]_vars

----------------------------------------------------------------------------
(* SpecOpt: the two-pointer loop of getOptimizedSettlements, one iteration  *)
(* per step.  Init draws the netBalances list of line 219-250: one entry   *)
(* per member kept, a number of cents off zero or an infinity.  (A member   *)
(* whose expenses have amount Infinity - createEqual only rejects amount   *)
(* <= 0 - has balance +-Infinity, which passes the test of line 243; a NaN *)
(* balance does not.)                                                       *)

OptInputs ==
    LET balances ==
            {Inf(-1), Whole(-50), Whole(-30), Whole(-20), Dec(-3, 2),
             Dec(-1, 2), Dec(1, 2), Dec(2, 2), Whole(20), Whole(30),
             Whole(50), Inf(1)}
    IN  UNION {{[k \in 1 .. n |-> [memberId |-> k, balance |-> b[k]]] :
                   b \in [1 .. n -> balances]} : n \in 0 .. OptMembers}

\* The iterations the model follows a run for.
IterCap == OptMembers + 2

InitOpt ==
    /\ EmptyStore
    /\ \E net \in OptInputs :
          /\ call = [fn |-> "getOptimizedSettlements", net |-> net,
                     iterations |-> 0]
          /\ debtors = Debtors(net)
          /\ creditors = Creditors(net)
    /\ suggestedSettlements = <<>>
    /\ i = 0 /\ j = 0
    /\ pc = "loop"

LoopState ==
    [debtors |-> debtors, creditors |-> creditors,
     suggestedSettlements |-> suggestedSettlements, i |-> i, j |-> j]

\* One iteration, lines 272-293.
LoopStep ==
    /\ pc = "loop" /\ LoopTest(LoopState)
    /\ call.iterations < IterCap
    /\ LET st == LoopBody(LoopState)
       IN  /\ debtors' = st.debtors
           /\ creditors' = st.creditors
           /\ suggestedSettlements' = st.suggestedSettlements
           /\ i' = st.i
           /\ j' = st.j
    /\ call' = [call EXCEPT !.iterations = @ + 1]
    /\ UNCHANGED <<storeVars, pc>>

\* The loop's test fails: line 295.
LoopExit ==
    /\ pc = "loop" /\ ~LoopTest(LoopState)
    /\ pc' = "done"
    /\ UNCHANGED <<storeVars, call, i, j, debtors, creditors, suggestedSettlements>>

NextOpt == LoopStep \/ LoopExit

SpecOpt == InitOpt /\ [][NextOpt]_vars

----------------------------------------------------------------------------
(* SpecLedger: one group with LedgerMembers members, to which expenses and *)
(* settlements are added.  Member LedgerMembers + 1 was added and removed   *)
(* again: its id is stale.                                                  *)

InitLedger ==
    /\ groups = (1 :> [archived |-> FALSE])
    /\ members = [m \in 1 .. LedgerMembers |->
                    [groupId |-> 1, isActive |-> TRUE]]
    /\ expenses = EmptyTable /\ settlements = EmptyTable
    /\ nextId = [groups |-> 1, members |-> LedgerMembers + 1,
                 expenses |-> 0, settlements |-> 0]
    /\ last = Returned("members.remove")
    /\ call = Idle
    /\ IdleLoop

LedgerAmountArgs == {Dec(3, 2), Whole(100)}

\* Participant lists: two members, all members, one member, and one list
\* that names a member twice.
LedgerSplitArgs == {<<1, 2>>, <<2, 3>>, <<1, 2, 3>>, <<3>>, <<1, 1>>}

\* Detail lists: one entry, two entries for two neighbouring members, or two
\* entries for member 1.
DetailLists(values) ==
    LET entries == [memberId : 1 .. LedgerMembers, value : values]
    IN  {<<e>> : e \in entries}
        \cup {p \in entries \X entries :
                 \/ p[1].memberId + 1 = p[2].memberId
                 \/ p[1].memberId = 1 /\ p[2].memberId = 1}

LedgerExactArgs == DetailLists({Dec(2, 2), Whole(40), Whole(60)})
LedgerPercentArgs == DetailLists({Whole(50), Whole(100)})

LedgerCreateEqual ==
    /\ nextId.expenses < LedgerExpenses
    /\ \E a \in LedgerAmountArgs, p \in MemberArgs, s \in LedgerSplitArgs :
          createEqual(1, a, p, s)
    /\ UNCHANGED <<call, loopVars>>
LedgerCreateExact ==
    /\ nextId.expenses < LedgerExpenses
    /\ \E a \in LedgerAmountArgs, p \in 1 .. LedgerMembers - 1, d \in LedgerExactArgs :
          createExact(1, a, p, d)
    /\ UNCHANGED <<call, loopVars>>
LedgerCreatePercentage ==
    /\ nextId.expenses < LedgerExpenses
    /\ \E a \in LedgerAmountArgs, p \in 1 .. LedgerMembers - 1, d \in LedgerPercentArgs :
          createPercentage(1, a, p, d)
    /\ UNCHANGED <<call, loopVars>>
LedgerSettle ==
    /\ nextId.settlements < LedgerSettlements
    /\ \E f \in 1 .. LedgerMembers, t \in 1 .. LedgerMembers,
          a \in {Dec(3333, 2)} : settlements_create(1, f, t, a)
    /\ UNCHANGED <<call, loopVars>>

NextLedger ==
    \/ LedgerCreateEqual
    \/ LedgerCreateExact
    \/ LedgerCreatePercentage
    \/ LedgerSettle

SpecLedger == InitLedger /\ [][NextLedger]_vars

----------------------------------------------------------------------------
(* SpecNet: the netting of getDetailedDebts on a debt matrix over           *)
(* NetMembers members, then on the matrix that holds the simplified debts.  *)

\* Cell values: nothing, 0.01, 0.0108, 30.00, 30.01, and an overpaid
\* settlement of 20.00.
NetCellArgs ==
    {Zero0, Dec(8, 4), Dec(1, 2), Dec(108, 4), Whole(30), Dec(3001, 2),
     Whole(-20)}

\* Lines 125-130 and 137-146: every cell of two distinct members can hold
\* any sum of shares less settlements; debts[m][m] stays 0.  What the
\* other members owe the last member takes fewer values.
NetMatrices ==
    {mx \in [1 .. NetMembers -> [1 .. NetMembers -> NetCellArgs]] :
        /\ \A m \in 1 .. NetMembers : mx[m][m] = Zero0
        /\ \A m \in 1 .. NetMembers - 1 :
              mx[m][NetMembers] \in {Zero0, Dec(8, 4), Whole(-20)}}

\* The matrix in which each debt is what from owes to: debts[from][to] =
\* amount, every other cell 0.
MatrixOfDebts(ms, ds) ==
    [a \in Range(ms) |-> [b \in Range(ms) |->
        IF \E k \in DOMAIN ds : ds[k].from = a /\ ds[k].to = b
        THEN ds[CHOOSE k \in DOMAIN ds : ds[k].from = a /\ ds[k].to = b].amount
        ELSE Zero0]]

InitNet ==
    /\ EmptyStore
    /\ IdleLoop
    /\ \E mx \in NetMatrices :
          call = [fn |-> "getDetailedDebts",
                  members |-> [k \in 1 .. NetMembers |-> k],
                  matrix |-> mx, pass |-> 1, done |-> FALSE,
                  first |-> <<>>, result |-> <<>>]

\* Lines 150-195 on the matrix of the call.
Simplify ==
    /\ call.fn = "getDetailedDebts" /\ ~call.done
    /\ call' = [call EXCEPT !.done = TRUE,
                            !.result = simplifiedDebts(call.members, call.matrix)]
    /\ UNCHANGED <<storeVars, loopVars>>

\* The next call takes the matrix of the debts just returned.
Derive ==
    /\ call.fn = "getDetailedDebts" /\ call.done /\ call.pass = 1
    /\ call' = [call EXCEPT !.done = FALSE, !.pass = 2,
                            !.first = call.result, !.result = <<>>,
                            !.matrix = MatrixOfDebts(call.members, call.result)]
    /\ UNCHANGED <<storeVars, loopVars>>

NextNet ==
    \/ Simplify
    \/ Derive

SpecNet == InitNet /\ [][NextNet]_vars

----------------------------------------------------------------------------
(* SpecCreate: createExact and createPercentage on one group of            *)
(* CreateMembers members, with detail values around the 0.01 tolerance.     *)
(* Each call leaves its arguments in call; member 1 pays.                   *)

InitCreate ==
    /\ groups = (1 :> [archived |-> FALSE])
    /\ members = [m \in 1 .. CreateMembers |->
                    [groupId |-> 1, isActive |-> TRUE]]
    /\ expenses = EmptyTable /\ settlements = EmptyTable
    /\ nextId = [groups |-> 1, members |-> CreateMembers,
                 expenses |-> 0, settlements |-> 0]
    /\ last = Returned("members.addBulk")
    /\ call = Idle
    /\ IdleLoop

\* Group 1 exists, group 2 does not.

\* Detail values: 50 (an amount or a percentage), 50.009, 50.011, 49.989,
\* 49.99 and 99.99.
CreateValueArgs ==
    {Whole(50), Dec(50009, 3), Dec(50011, 3), Dec(49989, 3), Dec(4999, 2),
     Dec(9999, 2)}

\* Detail lists: none, one entry, 50 for member 2 and then one entry, or 90
\* and 10.01.
CreateDetailsArgs ==
    LET entries == [memberId : 1 .. CreateMembers, value : CreateValueArgs]
    IN  {<<>>} \cup {<<d>> : d \in entries}
        \cup {<<[memberId |-> 2, value |-> Whole(50)], d>> : d \in entries}
        \cup {<<[memberId |-> 1, value |-> Whole(90)],
                [memberId |-> 2, value |-> Dec(1001, 2)]>>}

\* The arguments of a call: every detail list for group 1 and the amount
\* 100, the lists of at most one entry for the missing group and the
\* amount 0.
CreateArgs ==
    {c \in [groupId : {1, 2}, amount : {Zero0, Whole(100)},
            paidBy : {1}, splitDetails : CreateDetailsArgs] :
        \/ c.groupId = 1 /\ c.amount = Whole(100)
        \/ Len(c.splitDetails) <= 1}

CreateExactCall ==
    /\ nextId.expenses < CreateExpenses
    /\ \E c \in CreateArgs :
          /\ createExact(c.groupId, c.amount, c.paidBy, c.splitDetails)
          /\ call' = [fn |-> "createExact", groupId |-> c.groupId,
                      amount |-> c.amount, paidBy |-> c.paidBy,
                      splitDetails |-> c.splitDetails]
    /\ UNCHANGED loopVars

CreatePercentageCall ==
    /\ nextId.expenses < CreateExpenses
    /\ \E c \in CreateArgs :
          /\ createPercentage(c.groupId, c.amount, c.paidBy, c.splitDetails)
          /\ call' = [fn |-> "createPercentage", groupId |-> c.groupId,
                      amount |-> c.amount, paidBy |-> c.paidBy,
                      splitDetails |-> c.splitDetails]
    /\ UNCHANGED loopVars

NextCreate ==
    \/ CreateExactCall
    \/ CreatePercentageCall

SpecCreate == InitCreate /\ [][NextCreate]_vars

----------------------------------------------------------------------------
(* Claims *)

GroupMembers(g) == Range(ByGroup(members, g))
GroupExpenses(g) == Range(ByGroup(expenses, g))
GroupSettlements(g) == Range(ByGroup(settlements, g))

\* The claims speak of sums and differences of the numbers the program
\* handles.  They are taken exactly: the value of a finite double is
\* s * m * 2^e for a natural number m of any size.
Exact(x) == [s |-> x.s, m |-> Mant(x), e |-> IF IsZero(x) THEN 0 ELSE x.e]
ExactZero == [s |-> 1, m |-> <<>>, e |-> 0]
ExactNeg(p) == [p EXCEPT !.s = -p.s]
ExactAbs(p) == [p EXCEPT !.s = 1]

ExactAdd(p, q) ==
    IF p.m = <<>> THEN q
    ELSE IF q.m = <<>> THEN p
    ELSE LET e == Min(p.e, q.e)
             a == BigShl(p.m, p.e - e)
             b == BigShl(q.m, q.e - e)
         IN  IF p.s = q.s THEN [s |-> p.s, m |-> BigAdd(a, b), e |-> e]
             ELSE IF BigCmp(a, b) >= 0
                  THEN [s |-> p.s, m |-> BigSub(a, b), e |-> e]
                  ELSE [s |-> q.s, m |-> BigSub(b, a), e |-> e]

ExactSub(p, q) == ExactAdd(p, ExactNeg(q))
ExactMul(p, q) == [s |-> p.s * q.s, m |-> BigMul(p.m, q.m), e |-> p.e + q.e]

\* p <= q, p < q
ExactLe(p, q) == LET d == ExactSub(p, q) IN d.m = <<>> \/ d.s = -1
ExactLt(p, q) == LET d == ExactSub(p, q) IN d.m # <<>> /\ d.s = -1

\* The sum of the values of a sequence of finite doubles.
RECURSIVE ExactSum(_)
ExactSum(xs) ==
    IF xs = <<>> THEN ExactZero
    ELSE ExactAdd(Exact(Head(xs)), ExactSum(Tail(xs)))

\* The sum of f[x] over the elements x of a finite set S.
RECURSIVE SumOver(_, _)
SumOver(S, f) ==
    IF S = {} THEN ExactZero
    ELSE LET x == CHOOSE y \in S : TRUE
         IN  ExactAdd(Exact(f[x]), SumOver(S \ {x}, f))

\* What the rounding of double arithmetic can add up to on the amounts of
\* a ledger: 0.00000001.
RoundingNoise == JsMul(Dec(1, 4), Dec(1, 4))

\* p and q are the same but for rounding noise.
Same(p, q) == ExactLe(ExactAbs(ExactSub(p, q)), Exact(RoundingNoise))

\* The claims' thresholds, a rounding noise above and below 0.01.
ClearlyAbove == ExactAdd(Exact(Tolerance), Exact(RoundingNoise))
ClearlyBelow == ExactSub(Exact(Tolerance), Exact(RoundingNoise))

\* A group's ledger is internally consistent: every payer, participant and
\* settlement party is a member of the group, every amount is a finite
\* number, and the shares of each expense's participants add up to its
\* amount.
SharesOf(e) ==
    SumOver(Range(expenses[e].splitAmong),
            [m \in Range(expenses[e].splitAmong) |->
                calculateExpenseSplit(expenses[e], m)])

Consistent(g) ==
    /\ \A e \in GroupExpenses(g) :
          /\ expenses[e].paidBy \in GroupMembers(g)
          /\ Range(expenses[e].splitAmong) \subseteq GroupMembers(g)
          /\ IsFinite(expenses[e].amount)
          /\ \A m \in Range(expenses[e].splitAmong) :
                IsFinite(calculateExpenseSplit(expenses[e], m))
          /\ Same(SharesOf(e), Exact(expenses[e].amount))
    /\ \A s \in GroupSettlements(g) :
          /\ settlements[s].fromMember \in GroupMembers(g)
          /\ settlements[s].toMember \in GroupMembers(g)
          /\ IsFinite(settlements[s].amount)

SumOfBalances(g) ==
    LET bs == getMemberBalances(g)
    IN  ExactSum([k \in DOMAIN bs |-> bs[k].balance])

\* C1 (conservation): in every group whose ledger is internally consistent,
\* the balances that getMemberBalances returns sum to 0 within 0.01.
C1_Conservation ==
    \A g \in DOMAIN groups :
        Consistent(g) =>
            ExactLe(ExactAbs(SumOfBalances(g)), Exact(Tolerance))

\* A consistent ledger of two expenses and a settlement in which some member
\* has a non-zero balance.
C1_Witness ==
    /\ 1 \in DOMAIN groups /\ Consistent(1)
    /\ Cardinality(GroupExpenses(1)) = 2
    /\ Cardinality(GroupSettlements(1)) = 1
    /\ \E k \in DOMAIN getMemberBalances(1) :
          ~IsZero(getMemberBalances(1)[k].balance)

\* The members' net balances after every suggestion has been paid: from
\* pays to the stated amount.
BalanceOf(g, m) == JsSub(totalPaid(g, m), totalOwes(g, m))

RECURSIVE AmountsFromTo(_, _, _)
AmountsFromTo(sug, field, m) ==
    IF sug = <<>> THEN <<>>
    ELSE (IF Head(sug)[field] = m THEN <<Head(sug).amount>> ELSE <<>>)
         \o AmountsFromTo(Tail(sug), field, m)

AfterSettling(g, m) ==
    LET sug == getOptimizedSettlements(g).value
    IN  ExactSub(ExactAdd(Exact(BalanceOf(g, m)),
                          ExactSum(AmountsFromTo(sug, "from", m))),
                 ExactSum(AmountsFromTo(sug, "to", m)))

\* C2: in a consistent ledger getOptimizedSettlements returns, paying
\* every suggestion it returns leaves every member's balance within 0.01
\* of zero, and every suggestion goes from a member with a negative net
\* balance to a member with a positive one.
C2_SuggestionsSettle ==
    \A g \in DOMAIN groups :
        Consistent(g) =>
            LET sug == getOptimizedSettlements(g)
            IN  /\ sug.returns
                /\ \A m \in GroupMembers(g) :
                      ExactLe(ExactAbs(AfterSettling(g, m)), Exact(Tolerance))
                /\ \A k \in DOMAIN sug.value :
                      /\ JsLt(BalanceOf(g, sug.value[k].from), Zero0)
                      /\ JsGt(BalanceOf(g, sug.value[k].to), Zero0)

\* The second half of C2 alone: the query returns, and every suggestion
\* has the direction stated.
C2_Direction ==
    \A g \in DOMAIN groups :
        Consistent(g) =>
            LET sug == getOptimizedSettlements(g)
            IN  /\ sug.returns
                /\ \A k \in DOMAIN sug.value :
                      /\ JsLt(BalanceOf(g, sug.value[k].from), Zero0)
                      /\ JsGt(BalanceOf(g, sug.value[k].to), Zero0)

\* The example of C2, on the loop itself: the net balances A: +50, B: -30,
\* C: -20 (members 1, 2, 3) end with exactly B -> A 30 and C -> A 20.
C2_Example ==
    (/\ pc = "done"
     /\ call.fn = "getOptimizedSettlements"
     /\ call.net = <<[memberId |-> 1, balance |-> Whole(50)],
                     [memberId |-> 2, balance |-> Whole(-30)],
                     [memberId |-> 3, balance |-> Whole(-20)]>>)
    => suggestedSettlements =
          <<[from |-> 2, to |-> 1, amount |-> Whole(30)],
            [from |-> 3, to |-> 1, amount |-> Whole(20)]>>

\* The bound of C3 for a list of net balances.
IterationBound(net) ==
    LET n == Len(Debtors(net)) + Len(Creditors(net))
    IN  IF n = 0 THEN 0 ELSE n - 1

\* C3: for every list of net balances the loop makes at most (debtors +
\* creditors - 1) iterations and emits at most as many suggestions.
C3_LoopBounded ==
    call.fn = "getOptimizedSettlements" =>
        /\ call.iterations <= IterationBound(call.net)
        /\ Len(suggestedSettlements) <= IterationBound(call.net)

\* C3, the step: every iteration advances the debtor pointer or the
\* creditor pointer.
C3_EveryIterationAdvances == [][LoopStep => (i' > i \/ j' > j)]_vars

\* C3 for lists of finite balances only.
C3_FiniteLoopBounded ==
    (/\ call.fn = "getOptimizedSettlements"
     /\ \A k \in DOMAIN call.net : IsFinite(call.net[k].balance))
    => /\ call.iterations <= IterationBound(call.net)
       /\ Len(suggestedSettlements) <= IterationBound(call.net)
       /\ (pc = "loop" => (LoopTest(LoopState) => call.iterations < IterCap))

\* C3 on the store: getOptimizedSettlements returns for every group.
C3_QueryReturns ==
    \A g \in DOMAIN groups : getOptimizedSettlements(g).returns

\* C3 on the store, for groups whose expenses have finite amounts.
C3_FiniteQueryReturns ==
    \A g \in DOMAIN groups :
        (\A e \in GroupExpenses(g) : IsFinite(expenses[e].amount))
            => getOptimizedSettlements(g).returns

\* An expense or settlement of the group names a member id that is not a
\* member of the group.
UnresolvedReference(g) ==
    \/ \E e \in GroupExpenses(g) :
          \/ expenses[e].paidBy \notin GroupMembers(g)
          \/ ~(Range(expenses[e].splitAmong) \subseteq GroupMembers(g))
    \/ \E s \in GroupSettlements(g) :
          \/ settlements[s].fromMember \notin GroupMembers(g)
          \/ settlements[s].toMember \notin GroupMembers(g)

\* C4: when an expense or settlement of a group names a member id that is
\* not in the group's members, getMemberBalances, getDetailedDebts and
\* getOptimizedSettlements still complete without throwing: none of them
\* throws, and getOptimizedSettlements returns.
C4_UnresolvedIsNonFatal ==
    \A g \in DOMAIN groups :
        UnresolvedReference(g) =>
            /\ ~getMemberBalancesThrows(g)
            /\ ~getDetailedDebtsThrows(g)
            /\ ~getOptimizedSettlementsThrows(g)
            /\ getOptimizedSettlements(g).returns

\* C5: every stored expense has a non-empty splitAmong.
C5_SplitAmongNonEmpty ==
    \A e \in DOMAIN expenses : Len(expenses[e].splitAmong) >= 1

\* C6: the payer and every participant of every stored expense is an
\* existing member of the expense's own group.
C6_ReferencesResolve ==
    \A e \in DOMAIN expenses :
        \A m \in {expenses[e].paidBy} \cup Range(expenses[e].splitAmong) :
            /\ Exists(members, m)
            /\ members[m].groupId = expenses[e].groupId

\* C7: getGroupSummary never divides by zero: averageExpense is 0 for a
\* group without expenses, and perPersonAverage is 0, not Infinity or NaN,
\* when there is no active member to divide among.
C7_SummaryGuarded ==
    \A g \in DOMAIN groups :
        LET summary == getGroupSummary(g)
        IN  /\ summary.expenseCount = 0 => IsZero(summary.averageExpense)
            /\ summary.memberCount = 0 => IsZero(summary.perPersonAverage)

\* The first half of C7 alone: the average of no expenses is 0.
C7_AverageExpenseGuarded ==
    \A g \in DOMAIN groups :
        getGroupSummary(g).expenseCount = 0
            => IsZero(getGroupSummary(g).averageExpense)

\* C8: computing a share of an equal-type expense whose splitAmong is empty
\* fails with an error.
C8_EmptyEqualSplitFails ==
    (/\ call.fn = "calculateExpenseSplit" /\ call.done
     /\ call.expense.splitType = "equal"
     /\ call.expense.splitAmong = <<>>)
    => call.threw

\* C9: computing a participant's share of an expense whose split type is
\* none of equal, exact, percentage raises an error.  No stored expense
\* has such a split type, so no call of SpecSplit meets the premise.
C9_UnknownSplitTypeFails ==
    (/\ call.fn = "calculateExpenseSplit" /\ call.done
     /\ call.expense.splitType \notin {"equal", "exact", "percentage"}
     /\ Includes(call.expense.splitAmong, call.memberId))
    => call.threw

\* The entries of an expense's detail list for a member.
EntriesFor(expense, memberId) ==
    IF ~expense.splitDetails.defined THEN {}
    ELSE {k \in DOMAIN expense.splitDetails.items :
            expense.splitDetails.items[k].memberId = memberId}

\* The detail value the share is taken from: that of the member's first
\* entry.
IsDetailValue(expense, memberId, v) ==
    \E k \in EntriesFor(expense, memberId) :
        /\ \A h \in EntriesFor(expense, memberId) : k <= h
        /\ expense.splitDetails.items[k].value = v

\* C10: the share calculateExpenseSplit returns is 0 for a member outside
\* splitAmong; otherwise amount / |splitAmong| for equal, the member's
\* detail value for exact, amount * value / 100 for percentage, and 0, with
\* no error, when the detail list is missing or has no entry for the member.
\* (A quotient is stated as a product: the share times the divisor is the
\* dividend, but for rounding noise.)
C10_ShareMatchesReference ==
    (/\ call.fn = "calculateExpenseSplit" /\ call.done
     /\ call.expense.splitType \in {"equal", "exact", "percentage"})
    => LET e == call.expense
           m == call.memberId
           r == call.result
       IN  /\ ~call.threw
           /\ m \notin Range(e.splitAmong) => r = Zero0
           /\ (m \in Range(e.splitAmong) /\ e.splitType = "equal")
                 => /\ IsFinite(r)
                    /\ Same(ExactMul(Exact(r), Exact(Whole(Len(e.splitAmong)))),
                            Exact(e.amount))
           /\ (m \in Range(e.splitAmong) /\ e.splitType = "exact")
                 => IF EntriesFor(e, m) = {} THEN r = Zero0
                    ELSE IsDetailValue(e, m, r)
           /\ (m \in Range(e.splitAmong) /\ e.splitType = "percentage")
                 => IF EntriesFor(e, m) = {} THEN r = Zero0
                    ELSE \E v \in SplitInputValues :
                            /\ IsDetailValue(e, m, v)
                            /\ IsFinite(r)
                            /\ Same(ExactMul(Exact(r), Exact(Whole(100))),
                                    ExactMul(Exact(e.amount), Exact(v)))

\* The example of the specification: 90 split equally among three
\* participants is 30 for a participant.
C10_Witness ==
    /\ call.fn = "calculateExpenseSplit" /\ call.done
    /\ call.expense.splitType = "equal"
    /\ call.expense.amount = Whole(90)
    /\ Len(call.expense.splitAmong) = 3
    /\ Includes(call.expense.splitAmong, call.memberId)
    /\ call.result = Whole(30)

\* A share that no double holds exactly: 100 split equally among three.
C10_InexactShare ==
    /\ call.fn = "calculateExpenseSplit" /\ call.done
    /\ call.expense.splitType = "equal"
    /\ call.expense.amount = Whole(100)
    /\ Len(call.expense.splitAmong) = 3
    /\ Includes(call.expense.splitAmong, call.memberId)
    /\ ExactMul(Exact(call.result), Exact(Whole(3))) # Exact(Whole(100))

----------------------------------------------------------------------------
(* C11 *)

\* The reference ledger entry of member m of group g.
PaidReference(g, m) ==
    ExactAdd(
        SumOver({e \in GroupExpenses(g) : expenses[e].paidBy = m},
                [e \in GroupExpenses(g) |-> expenses[e].amount]),
        SumOver({s \in GroupSettlements(g) : settlements[s].fromMember = m},
                [s \in GroupSettlements(g) |-> settlements[s].amount]))

OwesReference(g, m) ==
    ExactAdd(
        SumOver(GroupExpenses(g),
                [e \in GroupExpenses(g) |-> calculateExpenseSplit(expenses[e], m)]),
        SumOver({s \in GroupSettlements(g) : settlements[s].toMember = m},
                [s \in GroupSettlements(g) |-> settlements[s].amount]))

\* C11: getMemberBalances returns one entry per member of the group, in the
\* members' order; totalPaid is what the member paid (expenses paid plus
\* settlements sent), totalOwes is the member's shares plus the settlements
\* received, and balance is totalPaid - totalOwes, not rounded.
C11_BalancesShape ==
    \A g \in DOMAIN groups :
        LET ms == ByGroup(members, g)
            bs == getMemberBalances(g)
        IN  /\ Len(bs) = Len(ms)
            /\ \A k \in DOMAIN ms :
                  /\ bs[k].memberId = ms[k]
                  /\ Same(Exact(bs[k].totalPaid), PaidReference(g, ms[k]))
                  /\ Same(Exact(bs[k].totalOwes), OwesReference(g, ms[k]))
                  /\ bs[k].balance = JsSub(bs[k].totalPaid, bs[k].totalOwes)
                  /\ Same(Exact(bs[k].balance),
                          ExactSub(PaidReference(g, ms[k]),
                                   OwesReference(g, ms[k])))

\* Member 1 has paid and owes, received a settlement, and has a balance that
\* is not a whole number of cents.
C11_Witness ==
    /\ 1 \in DOMAIN groups
    /\ Len(getMemberBalances(1)) = LedgerMembers
    /\ \E s \in GroupSettlements(1) : settlements[s].toMember = 1
    /\ \E e \in GroupExpenses(1) : expenses[e].paidBy = 1
    /\ JsGt(getMemberBalances(1)[1].totalOwes, Zero0)
    /\ ~Same(Exact(getMemberBalances(1)[1].balance),
             Exact(JsRound2(getMemberBalances(1)[1].balance)))

----------------------------------------------------------------------------
(* C12 *)

\* The entries of a list of debts between a and b, in either direction.
EntriesBetween(ds, a, b) ==
    {k \in DOMAIN ds : {ds[k].from, ds[k].to} = {a, b}}

\* The debts es of ds between a and b are at most one, from the net debtor
\* to the net creditor, of the positive amount round2(|net|).
OneDebt(ds, es, a, b, net, cells) ==
    /\ Cardinality(es) <= 1
    /\ \A k \in es :
          /\ ds[k].from = (IF net.s = 1 THEN a ELSE b)
          /\ ds[k].to = (IF net.s = 1 THEN b ELSE a)
          /\ ds[k].amount = JsRound2(JsAbs(JsSub(cells[a][b], cells[b][a])))
          /\ JsGt(ds[k].amount, Zero0)

\* C12: for each pair of distinct members the netting emits exactly one debt
\* when the net of the two cells is more than 0.01 in absolute value, from
\* the net debtor to the net creditor, of the positive amount round2(|net|),
\* and none when it is at most 0.01; no debt is from a member to the same
\* member and no pair has two debts.  The net is the exact difference of
\* the two cells; where it is within rounding noise of 0.01 the subtraction
\* of the doubles decides between one debt and none.
C12_OneDebtPerPair ==
    (call.fn = "getDetailedDebts" /\ call.done) =>
        LET ms == Range(call.members)
            ds == call.result
        IN  /\ \A k \in DOMAIN ds :
                  ds[k].from # ds[k].to /\ {ds[k].from, ds[k].to} \subseteq ms
            /\ \A a \in ms : \A b \in ms \ {a} :
                  LET net == ExactSub(Exact(call.matrix[a][b]),
                                      Exact(call.matrix[b][a]))
                      es == EntriesBetween(ds, a, b)
                  IN  /\ OneDebt(ds, es, a, b, net, call.matrix)
                      /\ ExactLt(ClearlyAbove, ExactAbs(net)) => es # {}
                      /\ ExactLt(ExactAbs(net), ClearlyBelow) => es = {}

\* What the netting does on the threshold: 30.01 against 30 is a debt of
\* 0.01 (the double of 30.01 less 30 is above the double of 0.01), 0.0108
\* against 0.0008 and 0.01 against 0 are none.
C12_OnTheThreshold ==
    (call.fn = "getDetailedDebts" /\ call.done) =>
        \A a \in Range(call.members) : \A b \in Range(call.members) \ {a} :
            LET es == EntriesBetween(call.result, a, b)
            IN  /\ (call.matrix[a][b] = Dec(3001, 2)
                       /\ call.matrix[b][a] = Whole(30)) => es # {}
                /\ (call.matrix[a][b] = Dec(108, 4)
                       /\ call.matrix[b][a] = Dec(8, 4)) => es = {}
                /\ (call.matrix[a][b] = Dec(1, 2)
                       /\ call.matrix[b][a] = Zero0) => es = {}

\* The netting has run on a matrix in which members 1 and 2 owe each other
\* 30.01 and 30, member 3 owes member 1 exactly 0.01, and members 2 and 3
\* are even: the one debt is that of member 1 to member 2.
C12_Witness ==
    /\ call.fn = "getDetailedDebts" /\ call.done /\ call.pass = 1
    /\ call.matrix[1][2] = Dec(3001, 2) /\ call.matrix[2][1] = Whole(30)
    /\ call.matrix[3][1] = Dec(1, 2) /\ call.matrix[1][3] = Zero0
    /\ call.matrix[2][3] = call.matrix[3][2]
    /\ Len(call.result) = 1
    /\ call.result[1] = [from |-> 1, to |-> 2, amount |-> Dec(1, 2)]

----------------------------------------------------------------------------
(* C13 *)

\* C13 (netting idempotence): the netting of the matrix that holds the
\* simplified debts of a first netting returns the same set of debts.
C13_NettingIdempotent ==
    (call.fn = "getDetailedDebts" /\ call.done /\ call.pass = 2) =>
        Range(call.result) = Range(call.first)

\* No pair owes in both directions after a netting.
C13_NoCrossDebt ==
    (call.fn = "getDetailedDebts" /\ call.done) =>
        \A k \in DOMAIN call.result : \A n \in DOMAIN call.result :
            ~(/\ call.result[k].from = call.result[n].to
              /\ call.result[k].to = call.result[n].from)

\* The second netting agrees with the first whenever no debt of the first
\* is of 0.01.
C13_IdempotentAboveOneCent ==
    (/\ call.fn = "getDetailedDebts" /\ call.done /\ call.pass = 2
     /\ \A k \in DOMAIN call.first : JsGt(call.first[k].amount, Tolerance)) =>
        Range(call.result) = Range(call.first)

----------------------------------------------------------------------------
(* C14 *)

\* C14: after any sequence of settlement mutations every stored settlement
\* has fromMember different from toMember and a positive amount (a create
\* or update that would store anything else throws).
C14_SettlementsValid ==
    \A s \in DOMAIN settlements :
        /\ settlements[s].fromMember # settlements[s].toMember
        /\ JsGt(settlements[s].amount, Zero0)

\* The two members of a stored settlement differ.
C14_MembersDiffer ==
    \A s \in DOMAIN settlements :
        settlements[s].fromMember # settlements[s].toMember

\* A stored amount is never zero or negative.
C14_NeverZeroOrNegative ==
    \A s \in DOMAIN settlements : ~JsLe(settlements[s].amount, Zero0)

\* A settlement mutation that throws leaves the settlements as they were.
C14_ThrowChangesNothing ==
    [][(last'.op \in {"settlements.create", "settlements.update",
                      "settlements.remove"} /\ ~last'.ok)
        => settlements' = settlements]_vars

----------------------------------------------------------------------------
(* C15 *)

\* The call passes the checks made before the details are totalled: the
\* group exists, the amount is positive, there is a detail.
PassesEarlierChecks(c) ==
    /\ Exists(groups, c.groupId)
    /\ JsGt(c.amount, Zero0)
    /\ Len(c.splitDetails) > 0

\* What the details' total is compared with.
TargetOf(c) == IF c.fn = "createExact" THEN c.amount ELSE Whole(100)

\* How far the total of the detail values is from the target.
OffTarget(c) ==
    ExactAbs(ExactSub(
        ExactSum([k \in DOMAIN c.splitDetails |-> c.splitDetails[k].value]),
        Exact(TargetOf(c))))

\* C15: createExact rejects a call exactly when the total of its detail
\* values differs from the amount by more than 0.01, createPercentage
\* exactly when it differs from 100 by more than 0.01 (for a call that gets
\* as far as that test); a rejected call inserts nothing, and an accepted
\* call stores one expense whose splitAmong lists the details' member ids.
\* The total and the difference are exact; where the difference is within
\* rounding noise of 0.01 the doubles of the sum and of the subtraction
\* decide.
C15_ToleranceDecides ==
    [][call'.fn \in {"createExact", "createPercentage"} =>
        /\ PassesEarlierChecks(call') =>
              /\ ExactLt(ClearlyAbove, OffTarget(call')) => ~last'.ok
              /\ ExactLt(OffTarget(call'), ClearlyBelow) => last'.ok
        /\ ~last'.ok => expenses' = expenses
        /\ last'.ok =>
              /\ DOMAIN expenses' = DOMAIN expenses \cup {nextId'.expenses}
              /\ nextId'.expenses \notin DOMAIN expenses
              /\ \A e \in DOMAIN expenses : expenses'[e] = expenses[e]
              /\ expenses'[nextId'.expenses].splitAmong
                    = MemberIdsOf(call'.splitDetails)
              /\ expenses'[nextId'.expenses].amount = call'.amount]_vars

\* What the two mutations do one cent off the target of 100: 99.99 alone,
\* and 90 with 10.01, are rejected; 50 with 49.99 is accepted.
C15_OneCentOff ==
    [][(call'.fn \in {"createExact", "createPercentage"}
          /\ PassesEarlierChecks(call')) =>
        LET values == [k \in DOMAIN call'.splitDetails |->
                          call'.splitDetails[k].value]
        IN  /\ values = <<Dec(9999, 2)>> => ~last'.ok
            /\ values = <<Whole(90), Dec(1001, 2)>> => ~last'.ok
            /\ values = <<Whole(50), Dec(4999, 2)>> => last'.ok]_vars

\* Both sides of the boundary have been seen, with an expense stored before:
\* the store holds an expense whose details, 50 and 50.009, are 0.009 off
\* its amount, and the last call, 0.011 under the amount with 50 and 49.989,
\* was rejected.
C15_Witness ==
    /\ call.fn = "createExact" /\ PassesEarlierChecks(call)
    /\ call.splitDetails = <<[memberId |-> 2, value |-> Whole(50)],
                             [memberId |-> 1, value |-> Dec(49989, 3)]>>
    /\ ~last.ok
    /\ \E e \in DOMAIN expenses :
          /\ expenses[e].splitType = "exact"
          /\ expenses[e].amount = Whole(100)
          /\ expenses[e].splitDetails.items =
                <<[memberId |-> 2, value |-> Whole(50)],
                  [memberId |-> 1, value |-> Dec(50009, 3)]>>
          /\ expenses[e].splitAmong = <<2, 1>>

----------------------------------------------------------------------------
(* C16 *)

\* The member is the payer of an expense or is in the splitAmong of one.
HasExpenses(m) ==
    \E e \in DOMAIN expenses :
        expenses[e].paidBy = m \/ Includes(expenses[e].splitAmong, m)

\* C16: members.remove deletes a member only if the member has no expenses
\* (is neither the payer nor in the splitAmong of any expense), and then
\* deletes that member's record and nothing else; a call that throws
\* changes nothing.
C16_RemoveOnlyWithoutExpenses ==
    [][last'.op = "members.remove" =>
        /\ ~last'.ok =>
              UNCHANGED <<groups, members, expenses, settlements>>
        /\ last'.ok =>
              /\ UNCHANGED <<groups, expenses, settlements>>
              /\ \E m \in DOMAIN members :
                    /\ members' = Delete(members, m)
                    /\ ~HasExpenses(m)]_vars

\* What a successful members.remove changes: one member record.
C16_RemoveDeletesOneRecord ==
    [][last'.op = "members.remove" =>
        /\ ~last'.ok =>
              UNCHANGED <<groups, members, expenses, settlements>>
        /\ last'.ok =>
              /\ UNCHANGED <<groups, expenses, settlements>>
              /\ \E m \in DOMAIN members : members' = Delete(members, m)]_vars

\* The member removed is not the payer of any expense and is in the
\* splitAmong of no expense of the member's own group.
C16_RemoveWithinOwnGroup ==
    [][(last'.op = "members.remove" /\ last'.ok) =>
        \A m \in DOMAIN members \ DOMAIN members' :
            /\ ~expensesAsPayer(m)
            /\ ~isInSplit(m)]_vars

----------------------------------------------------------------------------
(* C17 *)

\* The table after is the table before without the records of group g.
WithoutGroup(before, after, g) ==
    /\ DOMAIN after = {x \in DOMAIN before : before[x].groupId # g}
    /\ \A x \in DOMAIN after : after[x] = before[x]

\* C17: a groups.remove that succeeds deletes one group and every member,
\* expense and settlement whose groupId is that group, and leaves every
\* record of the other groups as it was; one that throws deletes nothing.
C17_RemoveGroupFrame ==
    [][last'.op = "groups.remove" =>
        /\ ~last'.ok =>
              UNCHANGED <<groups, members, expenses, settlements>>
        /\ last'.ok =>
              \E g \in DOMAIN groups :
                  /\ DOMAIN groups' = DOMAIN groups \ {g}
                  /\ \A x \in DOMAIN groups' : groups'[x] = groups[x]
                  /\ WithoutGroup(members, members', g)
                  /\ WithoutGroup(expenses, expenses', g)
                  /\ WithoutGroup(settlements, settlements', g)]_vars

\* Group 1 has been removed after a member, an expense and a settlement were
\* created; group 2 and a member of it are still there.
C17_Witness ==
    /\ last = Returned("groups.remove")
    /\ DOMAIN groups = {2}
    /\ nextId.expenses > 0 /\ nextId.settlements > 0
    /\ expenses = EmptyTable /\ settlements = EmptyTable
    /\ \E m \in DOMAIN members : members[m].groupId = 2
    /\ 1 \notin DOMAIN members

----------------------------------------------------------------------------
(* C18 *)

\* No expense of the group lists a participant twice.
DistinctParticipants(g) ==
    \A e \in GroupExpenses(g) :
        Cardinality(Range(expenses[e].splitAmong)) = Len(expenses[e].splitAmong)

\* What the others owe m less what m owes the others, by the debt matrix.
NetOfMatrix(matrix, ms, m) ==
    ExactSub(SumOver(ms \ {m}, [x \in ms |-> matrix[x][m]]),
             SumOver(ms \ {m}, [x \in ms |-> matrix[m][x]]))

\* C18: in every group whose ledger is internally consistent (references
\* resolve, participants are distinct, shares add up to the amount), after
\* any sequence of added expenses and settlements, the debt matrix of
\* getDetailedDebts gives each member the balance getMemberBalances reports:
\* the column sum less the row sum over the other members; and the cells
\* debts[m][m] are 0.
C18_MatrixAgreesWithBalances ==
    \A g \in DOMAIN groups :
        ~getDetailedDebtsThrows(g) =>
            LET ms == GroupMembers(g)
                matrix == debts(g)
            IN  /\ \A m \in ms : matrix[m][m] = Zero0
                /\ (Consistent(g) /\ DistinctParticipants(g)) =>
                      \A m \in ms :
                          Same(NetOfMatrix(matrix, ms, m),
                               Exact(BalanceOf(g, m)))

\* A consistent ledger of two expenses and a settlement in which member 1 is
\* owed by member 2 for an expense, member 2 has paid member 1 back more
\* than that, and member 3 owes too.
C18_Witness ==
    /\ 1 \in DOMAIN groups /\ Consistent(1) /\ DistinctParticipants(1)
    /\ Cardinality(GroupExpenses(1)) = 2
    /\ \E s \in GroupSettlements(1) :
          settlements[s].fromMember = 2 /\ settlements[s].toMember = 1
    /\ JsLt(debts(1)[2][1], Zero0)
    /\ JsGt(debts(1)[3][1], Zero0)
    /\ JsGt(debts(1)[3][2], Zero0)
    /\ ~IsZero(BalanceOf(1, 1))

====
